---- MODULE Spec2Model ----
(***************************************************************************)
(* Audio-to-Score PlayStack: the two Streamlit entry points, app.py (the   *)
(* transcription pipeline) and instrumental_app.py (the vocal remover),    *)
(* as one run of the script over its temporary workspace.                  *)
(*                                                                         *)
(* A path inside the workspace is a pair <<stem, suffix>>.  The workspace  *)
(* is a function from paths to the content stored there; a content is the  *)
(* record [by |-> the program that wrote the bytes, as |-> the path they   *)
(* were first written to], so that a rename moves an identifiable file.    *)
(* External programs (yt-dlp, basic-pitch, music21/LilyPond, fluidsynth,   *)
(* ffmpeg) are nondeterministic in their exit status and in what they      *)
(* write.                                                                  *)
(***************************************************************************)
EXTENDS Integers, FiniteSets, Sequences, TLC

VARIABLES
    app,         \* which script runs: "app" or "instrumental"
    pc,          \* position of the script
    end,         \* how the run ended: "running", "success", "stop", "exception"
    url,         \* st.text_input value
    file,        \* st.file_uploader value: NoFile or the extension of the upload
    soundfont,   \* SOUNDFONT.exists()
    tmp,         \* the TemporaryDirectory exists
    fs,          \* content of the workspace
    audio_path,  \* local variables of the script (NoPath when unbound / None)
    midi_path,
    pdf_path,
    wav_path,
    invoked,     \* external programs and routines started so far
    finished,    \* pipeline stages that have returned to the script
    sources,     \* input sources used by step 1
    ui,          \* elements sent to the page so far
    outcome      \* what each external call did in this run

vars == <<app, pc, end, url, file, soundfont, tmp, fs, audio_path, midi_path,
          pdf_path, wav_path, invoked, finished, sources, ui, outcome>>

\* ------------------------------------------------------------------ bounds

\* Largest number of files one basic-pitch call writes into the workspace.
MaxWritten == 3

\* ------------------------------------------------------------------- paths

NoPath == <<"", "">>
NoFile == "nofile"

Stem(p) == p[1]
Suffix(p) == p[2]

AudioWav == <<"audio", "wav">>
MidiPath == <<"transcription", "mid">>
PdfPath == <<"score", "pdf">>
RenderWav == <<"render", "wav">>
InstrPath == <<"instrumental", "wav">>

\* Extensions the uploader accepts, widened to any file (a missing type filter).
UploadTypesAny == {"mp3", "wav", "mid"}

\* st.file_uploader(type=["mp3", "wav"])
UploadTypes == {"mp3", "wav"}

\* suffix = Path(file.name).suffix or ".wav"
UploadSuffix(ext) == IF ext = "" THEN "wav" ELSE ext

UploadPath(ext) == <<"upload", UploadSuffix(ext)>>

\* The names the script looks for, in order.
PossibleNames(audio) ==
    << <<Stem(audio) \o "_basic_pitch", "mid">>,
       <<Stem(audio), "mid">>,
       <<"audio_basic_pitch", "mid">>,
       <<"audio", "mid">> >>

\* Names basic-pitch may give its output (tool-determined).
ToolNames(audio) ==
    { PossibleNames(audio)[i] : i \in 1..4 }
        \cup { <<"other", "mid">>, <<"other", "midi">>, MidiPath }

Paths ==
    {AudioWav, MidiPath, PdfPath, RenderWav, InstrPath}
        \cup { UploadPath(e) : e \in UploadTypes \cup UploadTypesAny }
        \cup ToolNames(AudioWav) \cup ToolNames(<<"upload", "wav">>)

\* ----------------------------------------------------------------- files

Absent == [by |-> "none", as |-> NoPath]
Content(prog, p) == [by |-> prog, as |-> p]

EmptyDir == [p \in Paths |-> Absent]

Exists(f, p) == p \in Paths /\ f[p] # Absent

\* out_dir.glob("*")
Listing(f) == { p \in Paths : f[p] # Absent }

\* out_dir.glob("*." + suffix)
Glob(f, suffix) == { p \in Listing(f) : Suffix(p) = suffix }

\* A program writes (creates or overwrites) each path of ps.
WriteAll(f, ps, prog) ==
    [p \in Paths |-> IF p \in ps THEN Content(prog, p) ELSE f[p]]

\* A rename that is forgotten: the file stays where the tool put it.
RenameSkipped(f, src, dst) == f

\* if candidate != midi_path: candidate.rename(midi_path)
Rename(f, src, dst) ==
    IF src = dst THEN f
    ELSE [f EXCEPT ![dst] = f[src], ![src] = Absent]

\* ------------------------------------------------------------ run state

Downloads == {"score_download", "wav_download", "midi_download"}

NoOutcome ==
    [dl |-> "none", prim |-> "none", selected |-> NoPath, before |-> {},
     picked |-> Absent, fb |-> "none", engrave |-> "none", render |-> "none",
     filter |-> "none"]

Init ==
    /\ app \in {"app", "instrumental"}
    /\ pc = "idle"
    /\ end = "running"
    /\ url \in {"", "https://youtu.be/VALID_ID"}
    /\ file \in {NoFile} \cup UploadTypes
    /\ soundfont \in BOOLEAN
    /\ tmp = FALSE
    /\ fs = EmptyDir
    /\ audio_path = NoPath
    /\ midi_path = NoPath
    /\ pdf_path = NoPath
    /\ wav_path = NoPath
    /\ invoked = {}
    /\ finished = {}
    /\ sources = {}
    /\ ui = {}
    /\ outcome = NoOutcome

\* A workspace removed by hand on the last line only (no scoped cleanup).
CleanupOnSuccess(kind) == kind = "success"

\* with tempfile.TemporaryDirectory(): __exit__ removes the directory however
\* the block is left.
Cleanup(kind) == TRUE

\* The with-block is left: normally ("success"), by st.stop() ("stop"), or by
\* an exception nobody catches ("exception").
ExitRun(kind) ==
    /\ pc' = "done"
    /\ end' = kind
    /\ tmp' = ~Cleanup(kind)
    /\ fs' = IF Cleanup(kind) THEN EmptyDir ELSE fs

\* if auto_start: / if start and url:
Start ==
    /\ pc = "idle"
    /\ app = "instrumental" => url # ""
    /\ tmp' = TRUE
    /\ pc' = IF app = "app" THEN "acquire" ELSE "i_download"
    /\ UNCHANGED <<app, end, url, file, soundfont, fs, audio_path, midi_path,
                   pdf_path, wav_path, invoked, finished, sources, ui, outcome>>

\* --------------------------------------------------- app.py: 1) acquire

\* A downloader whose exit status is ignored.
DownloadRaisesNever(res) == FALSE

\* if process.returncode != 0: raise CalledProcessError
DownloadRaises(res) == res = "nonzero"

\* if url:
UseUrl(u) == u # ""

\* A second "if" in place of the "elif".
UseUploadIf(u, f) == f # NoFile

\* elif file is not None:
UseUpload(u, f) == ~UseUrl(u) /\ f # NoFile

Acquire ==
    /\ pc = "acquire"
    /\ \E res \in {"ok", "nonzero", "notfound"} :
        LET useUrl == UseUrl(url)
            useUp  == UseUpload(url, file)
            fs1    == IF useUrl /\ res = "ok"
                      THEN WriteAll(fs, {AudioWav}, "yt-dlp") ELSE fs
            inv1   == IF useUrl THEN invoked \cup {"yt-dlp"} ELSE invoked
            out1   == IF useUrl THEN [outcome EXCEPT !.dl = res] ELSE outcome
        IN  /\ ~useUrl => res = "ok"
            /\ invoked' = inv1
            /\ outcome' = out1
            /\ IF useUrl /\ res = "notfound"
               THEN \* FileNotFoundError from subprocess.run: nobody catches it
                    /\ ExitRun("exception")
                    /\ sources' = sources \cup {"url"}
                    /\ UNCHANGED <<audio_path, ui, finished>>
               ELSE IF useUrl /\ DownloadRaises(res)
               THEN \* except CalledProcessError: st.error(...); st.stop()
                    /\ ExitRun("stop")
                    /\ sources' = sources \cup {"url"}
                    /\ ui' = ui \cup {"error"}
                    /\ UNCHANGED <<audio_path, finished>>
               ELSE IF ~useUrl /\ ~useUp
               THEN \* else: st.error("Please provide ..."); st.stop()
                    /\ ExitRun("stop")
                    /\ ui' = ui \cup {"error"}
                    /\ UNCHANGED <<audio_path, sources, finished>>
               ELSE /\ fs' = IF useUp
                             THEN WriteAll(fs1, {UploadPath(file)}, "upload")
                             ELSE fs1
                    /\ audio_path' = IF useUp THEN UploadPath(file) ELSE AudioWav
                    /\ sources' = sources \cup (IF useUrl THEN {"url"} ELSE {})
                                          \cup (IF useUp THEN {"upload"} ELSE {})
                    /\ finished' = finished \cup {"acquire"}
                    /\ pc' = "transcribe"
                    /\ UNCHANGED <<end, tmp, ui>>
    /\ UNCHANGED <<app, url, file, soundfont, midi_path, pdf_path, wav_path>>

\* ----------------------------------------------- app.py: 2) transcription

Min(S) == CHOOSE x \in S : \A y \in S : x <= y

\* The files the primary attempt may settle on after basic-pitch exited 0:
\* the first of possible_names that exists; failing that new_files[0], where
\* new_files lists the new *.mid files (in directory order, which is not
\* fixed) before the new *.midi files; {NoPath} when there is none.
Candidates(f, files_before, audio) ==
    LET names    == PossibleNames(audio)
        hits     == { i \in 1..Len(names) : Exists(f, names[i]) }
        new_mid  == Glob(f, "mid") \ files_before
        new_midi == Glob(f, "midi") \ files_before
    IN  IF hits # {} THEN { names[Min(hits)] }
        ELSE IF new_mid # {} THEN new_mid
        ELSE IF new_midi # {} THEN new_midi
        ELSE { NoPath }

\* The "return midi_path" lines of the primary attempt left out.
PrimaryReturnsNever(res, src) == FALSE

\* The primary attempt returns from inside its try block exactly when the
\* binary exited 0 and a file was found; every other way out of the block
\* (an exception caught at "except Exception", or its end) reaches the fallback.
PrimaryReturns(res, src) == res = "ok" /\ src # NoPath

\* A fallback that hands back the canonical path whether or not it wrote it.
FallbackAlwaysReturns(ok) == "return"

\* try: predict(...); midi_data.write(midi_path); return midi_path
\* except Exception: st.error(...); raise FileNotFoundError(...)
FallbackResult(ok) == IF ok THEN "return" ELSE "raise"

TranscribePrimary ==
    /\ pc = "transcribe"
    /\ \E res \in {"ok", "nonzero", "notfound"},
          written \in SUBSET ToolNames(audio_path) :
        /\ Cardinality(written) <= MaxWritten
        /\ res = "notfound" => written = {}
        /\ LET files_before == Listing(fs)
               fs1 == WriteAll(fs, written, "basic-pitch")
           IN  \E src \in (IF res = "ok"
                           THEN Candidates(fs1, files_before, audio_path)
                           ELSE {NoPath}) :
                /\ invoked' = invoked \cup {"basic-pitch"}
                /\ outcome' = [outcome EXCEPT
                        !.prim = IF res # "ok" THEN res
                                 ELSE IF src = NoPath THEN "nofile" ELSE "found",
                        !.selected = src,
                        !.before = files_before,
                        !.picked = IF src = NoPath THEN Absent ELSE fs1[src]]
                /\ fs' = IF src = NoPath THEN fs1 ELSE Rename(fs1, src, MidiPath)
                /\ IF PrimaryReturns(res, src)
                   THEN /\ midi_path' = MidiPath
                        /\ finished' = finished \cup {"transcribe"}
                        /\ ui' = ui \cup {"midi_ready"}
                        /\ pc' = "engrave"
                   ELSE \* st.warning on a non-zero exit and in "except Exception"
                        /\ ui' = IF res # "ok" THEN ui \cup {"warning"} ELSE ui
                        /\ pc' = "fallback"
                        /\ UNCHANGED <<midi_path, finished>>
    /\ UNCHANGED <<app, end, url, file, soundfont, tmp, audio_path, pdf_path,
                   wav_path, sources>>

TranscribeFallback ==
    /\ pc = "fallback"
    /\ \E ok \in BOOLEAN :
        /\ invoked' = invoked \cup {"predict"}
        /\ outcome' = [outcome EXCEPT !.fb = IF ok THEN "ok" ELSE "raise"]
        /\ IF FallbackResult(ok) = "return"
           THEN /\ fs' = IF ok THEN WriteAll(fs, {MidiPath}, "predict") ELSE fs
                /\ midi_path' = MidiPath
                /\ finished' = finished \cup {"transcribe"}
                /\ ui' = ui \cup {"midi_ready"}
                /\ pc' = "engrave"
                /\ UNCHANGED <<end, tmp>>
           ELSE \* the caller: except Exception: st.error(...); st.stop()
                /\ ExitRun("stop")
                /\ ui' = ui \cup {"error"}
                /\ UNCHANGED <<midi_path, finished>>
    /\ UNCHANGED <<app, url, file, soundfont, audio_path, pdf_path, wav_path,
                   sources>>

\* ------------------------------------------- app.py: 3) - 5) and the end

\* An Engraver without its try/except.
EngraverEscapesOnRaise(res) == res = "raise"

\* midi_to_score_pdf: "except Exception" catches whatever the Engraver raises.
EngraverEscapes(res) == FALSE

\* midi_to_score_pdf's return value.
MidiToScorePdf(res) == IF res = "raise" THEN NoPath ELSE PdfPath

\* The MIDI offer moved up to the score offer.
OffersAfterEngraveAll(f, pdf) ==
    IF pdf # NoPath /\ Exists(f, pdf)
    THEN {"score_download", "midi_download"} ELSE {"midi_download"}

\* if pdf_path and pdf_path.exists(): st.download_button(score)
OffersAfterEngrave(f, pdf) ==
    IF pdf # NoPath /\ Exists(f, pdf) THEN {"score_download"} ELSE {}

Engrave ==
    /\ pc = "engrave"
    /\ \E res \in {"ok", "ok_nofile", "raise"} :
        /\ invoked' = invoked \cup {"music21"}
        /\ outcome' = [outcome EXCEPT !.engrave = res]
        /\ IF res = "raise" /\ EngraverEscapes(res)
           THEN /\ ExitRun("exception")
                /\ UNCHANGED <<pdf_path, finished, ui>>
           ELSE LET fs1 == IF res = "ok"
                           THEN WriteAll(fs, {PdfPath}, "music21") ELSE fs
                    pdf == MidiToScorePdf(res)
                IN  /\ fs' = fs1
                    /\ pdf_path' = pdf
                    /\ finished' = finished \cup {"engrave"}
                    /\ ui' = ui \cup OffersAfterEngrave(fs1, pdf)
                                \cup (IF res = "raise" THEN {"warning"} ELSE {})
                    /\ pc' = "render"
                    /\ UNCHANGED <<end, tmp>>
    /\ UNCHANGED <<app, url, file, soundfont, audio_path, midi_path, wav_path,
                   sources>>

\* A Synthesizer that does not look for the sound bank first.
SkipsRenderNever(sf) == FALSE

\* if not SOUNDFONT.exists(): ...; return None
SkipsRender(sf) == ~sf

\* except CalledProcessError / except FileNotFoundError: both return None; any
\* other error of subprocess.run (a PermissionError, say) leaves the function.
RenderEscapes(res) == res = "oserror"

\* render_midi_to_wav's return value when it returns.
RenderMidiToWav(res) ==
    IF res \in {"ok", "ok_nofile"} THEN RenderWav ELSE NoPath

\* if wav_path and wav_path.exists(): st.audio; st.download_button
\* else: st.info(...)
OffersAfterRender(f, wav) ==
    IF wav # NoPath /\ Exists(f, wav)
    THEN {"audio", "wav_download"} ELSE {"info_skipped"}

Render ==
    /\ pc = "render"
    /\ \E res \in {"skipped", "ok", "ok_nofile", "nonzero", "notfound", "oserror"} :
        /\ (res = "skipped") = SkipsRender(soundfont)
        /\ invoked' = IF res = "skipped" THEN invoked
                      ELSE invoked \cup {"fluidsynth"}
        /\ outcome' = [outcome EXCEPT !.render = res]
        /\ IF RenderEscapes(res)
           THEN /\ ExitRun("exception")
                /\ UNCHANGED <<wav_path, finished, ui>>
           ELSE LET fs1 == IF res = "ok"
                           THEN WriteAll(fs, {RenderWav}, "fluidsynth") ELSE fs
                    wav == RenderMidiToWav(res)
                IN  /\ fs' = fs1
                    /\ wav_path' = wav
                    /\ finished' = finished \cup {"render"}
                    /\ ui' = ui \cup OffersAfterRender(fs1, wav)
                                \cup (IF res \in {"ok", "ok_nofile"} THEN {}
                                      ELSE {"warning"})
                    /\ pc' = "offer_midi"
                    /\ UNCHANGED <<end, tmp>>
    /\ UNCHANGED <<app, url, file, soundfont, audio_path, midi_path, pdf_path,
                   sources>>

\* if midi_path.exists(): st.download_button(MIDI); then the with-block ends
OfferMidi ==
    /\ pc = "offer_midi"
    /\ ui' = IF Exists(fs, midi_path) THEN ui \cup {"midi_download"} ELSE ui
    /\ ExitRun("success")
    /\ UNCHANGED <<app, url, file, soundfont, audio_path, midi_path, pdf_path,
                   wav_path, invoked, finished, sources, outcome>>

\* ------------------------------------------------- instrumental_app.py

\* download_youtube_audio: subprocess.run(cmd, check=True)
IDownload ==
    /\ pc = "i_download"
    /\ \E res \in {"ok", "nonzero", "notfound"} :
        /\ invoked' = invoked \cup {"yt-dlp"}
        /\ outcome' = [outcome EXCEPT !.dl = res]
        /\ sources' = sources \cup {"url"}
        /\ IF res = "ok"
           THEN /\ fs' = WriteAll(fs, {AudioWav}, "yt-dlp")
                /\ audio_path' = AudioWav
                /\ pc' = "i_remove"
                /\ UNCHANGED <<end, tmp>>
           ELSE /\ ExitRun("exception")
                /\ UNCHANGED audio_path
    /\ UNCHANGED <<app, url, file, soundfont, midi_path, pdf_path, wav_path,
                   finished, ui>>

\* remove_vocals: subprocess.run(cmd, check=True)
IRemoveVocals ==
    /\ pc = "i_remove"
    /\ \E res \in {"ok", "nonzero", "notfound"} :
        /\ invoked' = invoked \cup {"ffmpeg"}
        /\ outcome' = [outcome EXCEPT !.filter = res]
        /\ IF res = "ok"
           THEN /\ fs' = WriteAll(fs, {InstrPath}, "ffmpeg")
                /\ wav_path' = InstrPath
                /\ pc' = "i_present"
                /\ UNCHANGED <<end, tmp>>
           ELSE /\ ExitRun("exception")
                /\ UNCHANGED wav_path
    /\ UNCHANGED <<app, url, file, soundfont, audio_path, midi_path, pdf_path,
                   finished, sources, ui>>

\* instr_path.read_bytes(); st.audio; st.download_button; the with-block ends
IPresent ==
    /\ pc = "i_present"
    /\ IF Exists(fs, wav_path)
       THEN /\ ui' = ui \cup {"audio", "instrumental_download"}
            /\ ExitRun("success")
       ELSE /\ ExitRun("exception")
            /\ UNCHANGED ui
    /\ UNCHANGED <<app, url, file, soundfont, audio_path, midi_path, pdf_path,
                   wav_path, invoked, finished, sources, outcome>>

Next ==
    \/ Start
    \/ Acquire
    \/ TranscribePrimary
    \/ TranscribeFallback
    \/ Engrave
    \/ Render
    \/ OfferMidi
    \/ IDownload
    \/ IRemoveVocals
    \/ IPresent

Spec == Init /\ [][Next]_vars

\* ------------------------------------------------------------ properties

MidiFiles(f) == Glob(f, "mid") \cup Glob(f, "midi")

PrimaryFailed == outcome.prim \in {"notfound", "nonzero", "nofile"}

\* C1: when both transcription attempts fail (the basic-pitch command and the
\* in-process fallback), the run stops there: neither the Engraver nor the
\* Synthesizer is ever invoked and no score, audio or MIDI download is offered.
C1_AbortBeforeOptionalStages ==
    (app = "app" /\ PrimaryFailed /\ outcome.fb = "raise") =>
        /\ pc = "done" /\ end = "stop"
        /\ "music21" \notin invoked
        /\ "fluidsynth" \notin invoked
        /\ ui \cap Downloads = {}
        /\ "audio" \notin ui

C1_Witness ==
    /\ app = "app" /\ pc = "done"
    /\ outcome.prim = "nonzero" /\ outcome.fb = "raise"
    /\ "error" \in ui

\* C2: for both entry points, a run that has ended (by success, by st.stop(),
\* or by an exception that escaped) has its temporary workspace removed.
C2_WorkspaceRemovedAtEnd ==
    pc = "done" => (~tmp /\ Listing(fs) = {})

C2_Witness ==
    /\ pc = "done" /\ end = "exception" /\ ~tmp
    /\ app = "instrumental" /\ outcome.filter = "nonzero"

\* C3: once the Transcriber has returned a note-event file, the run ends with
\* the MIDI download offered, whether the Engraver raised, the sound bank was
\* absent, or fluidsynth exited non-zero or was not found; and an Engraver
\* failure does not keep the Synthesizer stage from being reached.
C3_MidiOfferedDespiteOptionalFailures ==
    (app = "app" /\ pc = "done" /\ "transcribe" \in finished) =>
        /\ outcome.render \in {"skipped", "ok", "ok_nofile", "nonzero", "notfound"}
               => "midi_download" \in ui
        /\ outcome.engrave = "raise" => outcome.render # "none"
        /\ (outcome.engrave = "raise" /\ soundfont) => "fluidsynth" \in invoked

C3_Witness ==
    /\ app = "app" /\ pc = "done"
    /\ outcome.engrave = "raise" /\ outcome.render = "notfound"
    /\ "midi_download" \in ui

\* C4: with the sound-font file absent, render_midi_to_wav returns None without
\* raising and without starting fluidsynth, and the page shows neither the
\* audio widget nor the WAV download.
C4_NoSoundfontNoAudio ==
    (app = "app" /\ ~soundfont) =>
        /\ "fluidsynth" \notin invoked
        /\ wav_path = NoPath
        /\ "audio" \notin ui
        /\ "wav_download" \notin ui
        /\ outcome.render \in {"none", "skipped"}
        /\ outcome.render = "skipped" => "render" \in finished

C4_Witness ==
    /\ app = "app" /\ ~soundfont /\ pc = "offer_midi"
    /\ outcome.render = "skipped" /\ "info_skipped" \in ui

\* C5 as stated: no download (score, audio or MIDI) is offered before both the
\* Engraver and the Synthesizer stages have finished.
C5_Original_NoDownloadBeforeBothStages ==
    (app = "app" /\ ui \cap Downloads # {})
        => {"engrave", "render"} \subseteq finished

\* C5 amended: the score download is offered only after the Engraver has
\* finished (it may precede the Synthesizer); the audio and MIDI downloads
\* are offered only after both the Engraver and the Synthesizer have finished.
C5_DownloadsFollowTheirStage ==
    app = "app" =>
        /\ "score_download" \in ui => "engrave" \in finished
        /\ ("wav_download" \in ui \/ "audio" \in ui \/ "midi_download" \in ui)
               => {"engrave", "render"} \subseteq finished

C5_Witness ==
    /\ pc = "render"
    /\ "score_download" \in ui
    /\ "render" \notin finished

\* C6: a fatal acquisition error (yt-dlp exiting non-zero, or neither a URL nor
\* an upload given) ends the run: Transcriber, Engraver and Synthesizer are
\* never invoked, no download is offered, and an error is shown.
C6_FatalAcquisitionHalts ==
    (app = "app" /\ (outcome.dl = "nonzero"
                     \/ (url = "" /\ file = NoFile /\ pc \notin {"idle", "acquire"}))) =>
        /\ pc = "done" /\ end = "stop"
        /\ invoked \cap {"basic-pitch", "predict", "music21", "fluidsynth"} = {}
        /\ ui \cap Downloads = {}
        /\ "error" \in ui

C6_Witness ==
    /\ app = "app" /\ pc = "done" /\ outcome.dl = "nonzero"
    /\ "error" \in ui

\* C7: exactly one source is used by a run that reaches transcription (the
\* downloader was invoked or the upload was written, never both, never
\* neither); with both a URL and an upload given, only the URL is used.
C7_ExactlyOneSource ==
    app = "app" =>
        /\ "acquire" \in finished => Cardinality(sources) = 1
        /\ ("url" \in sources) = ("yt-dlp" \in invoked)
        /\ "upload" \in sources =>
               (pc # "done" => \E p \in Listing(fs) : fs[p].by = "upload")
        /\ url # "" => /\ "upload" \notin sources
                       /\ \A p \in Listing(fs) : fs[p].by # "upload"

C7_Witness ==
    /\ app = "app" /\ url # "" /\ file # NoFile
    /\ "basic-pitch" \in invoked
    /\ sources = {"url"}

\* C8: the fallback is invoked if and only if the primary attempt raised,
\* exited non-zero or left no matching file; when the primary attempt finds a
\* file the fallback is not invoked and that file is what the canonical path
\* holds on return.
C8_FallbackIffPrimaryFailed ==
    (app = "app" /\ outcome.prim # "none" /\ pc # "fallback") =>
        /\ ("predict" \in invoked) = PrimaryFailed
        /\ (outcome.prim = "found" /\ pc = "engrave") =>
               /\ midi_path = MidiPath
               /\ outcome.picked # Absent
               /\ fs[MidiPath] = outcome.picked

C8_Witness ==
    /\ pc = "engrave" /\ outcome.prim = "found"
    /\ outcome.selected = <<"other", "midi">>
    /\ "predict" \notin invoked

\* C9 as stated: when transcribe_audio_to_midi returns, the workspace holds
\* exactly one MIDI file, at transcription.mid.
C9_Original_ExactlyOneMidiFile ==
    (pc = "engrave" /\ "transcribe" \in finished) => MidiFiles(fs) = {MidiPath}

\* C9 amended: when transcribe_audio_to_midi returns, the path it returns is
\* transcription.mid and that file exists; any other MIDI file in the
\* workspace is a further output of the transcription binary left under the
\* name the binary gave it.
C9_CanonicalMidiExists ==
    (pc = "engrave" /\ "transcribe" \in finished) =>
        /\ midi_path = MidiPath
        /\ Exists(fs, MidiPath)
        /\ \A p \in MidiFiles(fs) \ {MidiPath} : fs[p] = Content("basic-pitch", p)

C9_Witness ==
    /\ pc = "engrave" /\ "transcribe" \in finished
    /\ outcome.prim = "found"
    /\ Cardinality(MidiFiles(fs)) >= 2

\* C10: the file the primary attempt renames to the canonical name was written
\* by basic-pitch during the call: before the call the workspace holds only the
\* acquired waveform (audio.wav or upload.<ext>), which no pattern and no
\* MIDI glob can select.
C10_SelectedFileIsNew ==
    (app = "app" /\ outcome.selected # NoPath) =>
        /\ outcome.before = {audio_path}
        /\ Suffix(audio_path) \notin {"mid", "midi"}
        /\ outcome.selected \notin outcome.before
        /\ outcome.picked = Content("basic-pitch", outcome.selected)

C10_Witness ==
    /\ outcome.selected = <<"upload", "mid">>
    /\ sources = {"upload"}
    /\ pc = "engrave"

====
